---- MODULE Spec2Model ----
(***************************************************************************)
(* The reflective dev-tool / dev-command registry of bevy_dev_tools        *)
(* (crates/bevy_dev_tools/src/lib.rs) together with the one tool the crate *)
(* ships, DevFlyCamera (crates/bevy_dev_tools/src/fly_camera.rs).          *)
(*                                                                         *)
(* The App is the pair <<registry, world>>: the TypeRegistry of the App    *)
(* (the set of registered type identifiers; a registration of a type       *)
(* declared with #[reflect(DevTool)] / #[reflect(DevCommand)] carries the  *)
(* ReflectDevTool / ReflectDevCommand type data) and the World's resource  *)
(* store (one optional instance per tool type).                            *)
(***************************************************************************)
EXTENDS Naturals, Sequences, FiniteSets

VARIABLES
    registry,   \* TypeRegistry of the App: the registered type identifiers
    world,      \* World resources: tool type -> Option<T>
    pending,    \* Box<dyn DevCommand> values reconstructed and not yet applied
    last        \* the most recent call: its name, type argument and return value

vars == <<registry, world, pending, last>>

\* Number of reconstructed commands the host may hold before applying them.
MaxPending == 1

(***************************************************************************)
(* Option<T>                                                               *)
(***************************************************************************)
None == <<>>
Some(v) == <<v>>
unwrap(o) == o[1]

\* What a call that panics leaves in place of a return value.
Panic == <<"panic", "panic">>

(***************************************************************************)
(* Types                                                                   *)
(***************************************************************************)
\* Tool types: DevFlyCamera (fly_camera.rs) and the Brightness tool of the
\* specification's scenario (a tool whose default is disabled).
ToolTypes == {"DevFlyCamera", "Brightness"}

\* The generic command adapters Enable<T>, Disable<T>, Toggle<T>.
CommandKinds == {"Enable", "Disable", "Toggle"}

\* TypeId::of::<T>() and TypeId::of::<Enable<T>>() etc.: distinct types never
\* collide.
ToolId(T) == <<"Tool", T>>
CommandId(k, T) == <<k, T>>
ToolIds == {ToolId(T) : T \in ToolTypes}
CommandIds == {CommandId(k, T) : k \in CommandKinds, T \in ToolTypes}
TypeIds == ToolIds \cup CommandIds

\* impl Default for DevFlyCamera
DevFlyCameraDefault ==
    [enabled |-> TRUE, movement_speed |-> Some(3), turn_speed |-> Some(10)]

\* Brightness{enabled:false}
BrightnessDefault == [enabled |-> FALSE]

\* T::default()
Default(T) == IF T = "DevFlyCamera" THEN DevFlyCameraDefault ELSE BrightnessDefault

\* The snapshots a reflected command carries in the model: every value of the
\* enabled flag, the other fields as in the default.
SnapshotValues(T) == {[Default(T) EXCEPT !.enabled = b] : b \in BOOLEAN}

\* The values insert_dev_tool is called with: the snapshots, and a
\* DevFlyCamera that differs from the default in another field as well.
ToolValues(T) ==
    SnapshotValues(T)
    \cup (IF T = "DevFlyCamera"
          THEN {[enabled |-> FALSE, movement_speed |-> None, turn_speed |-> Some(10)]}
          ELSE {})

\* DevTool::set_enabled / DevTool::is_enabled
set_enabled(tool, enabled) == [tool EXCEPT !.enabled = enabled]
is_enabled(tool) == tool.enabled

(***************************************************************************)
(* The host facilities the crate calls: World resources, the App's type    *)
(* registry and the reflection facility.                                   *)
(***************************************************************************)
\* World::get_resource::<D>()
get_resource(w, D) == w[D]

\* App::init_resource::<T>(): inserts T::default() if there is no instance.
init_resource(w, T) ==
    IF w[T] = None THEN [w EXCEPT ![T] = Some(Default(T))] ELSE w

\* App::insert_resource(tool): inserts, replacing an instance already there.
insert_resource(w, T, tool) == [w EXCEPT ![T] = Some(tool)]

\* App::register_type::<T>(): adds T's registration unless already present.
register_type(reg, id) == reg \cup {id}

\* TypeRegistry lookup of the vtable (type data) registered for a type id.
get_type_data(reg, id) ==
    IF id \in reg
    THEN Some([vtable |-> IF id \in ToolIds THEN "ReflectDevTool"
                          ELSE "ReflectDevCommand",
               of |-> id])
    ELSE None

\* A value seen as &dyn Reflect: a struct of the tool's fields, or a struct
\* with the single field dev_tool (the shape of Enable/Disable/Toggle), or a
\* value that is no struct at all.
ReflectTool(T, v) == [shape |-> "Tool", of |-> T, value |-> v]
ReflectCommand(T, v) == [shape |-> "Command", of |-> T, value |-> v]
ReflectScalar == [shape |-> "Scalar", of |-> "-", value |-> [enabled |-> FALSE]]
Payloads ==
    {ReflectTool(T, Default(T)) : T \in ToolTypes}
    \cup UNION {{ReflectCommand(T, v) : v \in SnapshotValues(T)} : T \in ToolTypes}
    \cup {ReflectScalar}

\* <D as FromReflect>::from_reflect for a tool type D
tool_from_reflect(D, reflect) ==
    IF reflect.shape = "Tool" /\ reflect.of = D THEN Some(reflect.value) ELSE None

\* <Enable<T> as FromReflect>::from_reflect, and likewise Disable, Toggle
command_from_reflect(C, reflect) ==
    IF reflect.shape = "Command" /\ reflect.of = C[2]
    THEN Some([kind |-> C[1], ty |-> C[2], dev_tool |-> reflect.value])
    ELSE None

(***************************************************************************)
(* ReflectDevTool: the vtable built by FromType<D>::from_type()            *)
(***************************************************************************)
\* get_reflect: |world| world.get_resource::<D>().map(|d| d as &dyn Reflect)
get_reflect(D, w) ==
    IF get_resource(w, D) = None
    THEN None
    ELSE Some(ReflectTool(D, unwrap(get_resource(w, D))))

\* get written with World::resource::<D>(), which panics when D is absent.
get_or_panic(D, w) ==
    IF get_resource(w, D) = None
    THEN Panic
    ELSE Some(unwrap(get_resource(w, D)))

\* get: |world| world.get_resource::<D>().map(|d| d as &dyn DevTool)
get(D, w) ==
    IF get_resource(w, D) = None
    THEN None
    ELSE Some(unwrap(get_resource(w, D)))

\* from_reflect: |reflect| D::from_reflect(reflect).map(|d| Box::new(d))
from_reflect(D, reflect) ==
    IF tool_from_reflect(D, reflect) = None
    THEN None
    ELSE Some(unwrap(tool_from_reflect(D, reflect)))

(***************************************************************************)
(* ReflectDevCommand: the vtable built by FromType<C>::from_type()         *)
(***************************************************************************)
\* from_reflect: |reflect| C::from_reflect(reflect).map(|d| Box::new(d))
dev_command_from_reflect(C, reflect) ==
    IF command_from_reflect(C, reflect) = None
    THEN None
    ELSE Some(unwrap(command_from_reflect(C, reflect)))

(***************************************************************************)
(* Enable<T>, Disable<T>, Toggle<T>                                        *)
(* apply(mut self, _world): returns the command as it is when dropped and  *)
(* the world as the call leaves it.                                        *)
(***************************************************************************)
Enable_apply(self, w) ==
    [self |-> [self EXCEPT !.dev_tool = set_enabled(self.dev_tool, TRUE)],
     world |-> w]

Disable_apply(self, w) ==
    [self |-> [self EXCEPT !.dev_tool = set_enabled(self.dev_tool, FALSE)],
     world |-> w]

Toggle_apply(self, w) ==
    [self |-> [self EXCEPT !.dev_tool =
                   set_enabled(self.dev_tool, ~is_enabled(self.dev_tool))],
     world |-> w]

\* Command::apply dispatched on the command's concrete type
Command_apply(self, w) ==
    CASE self.kind = "Enable" -> Enable_apply(self, w)
      [] self.kind = "Disable" -> Disable_apply(self, w)
      [] self.kind = "Toggle" -> Toggle_apply(self, w)

\* DevCommand::apply(&self, world) {}: the provided method, which none of the
\* three adapters overrides.
DevCommand_apply(self, w) == [self |-> self, world |-> w]

(***************************************************************************)
(* impl DevToolsApp for App                                                *)
(***************************************************************************)
\* register_dev_command dropping a registration it finds already present.
register_dev_command_flip(app, C) ==
    [app EXCEPT !.registry = IF C \in app.registry
                             THEN app.registry \ {C}
                             ELSE register_type(app.registry, C)]

register_dev_command(app, C) ==
    [app EXCEPT !.registry = register_type(app.registry, C)]

\* init_dev_tool written with insert_resource(T::default()).
init_dev_tool_overwrite(app, T) ==
    LET a1 == [app EXCEPT !.registry = register_type(app.registry, ToolId(T))]
        a2 == [a1 EXCEPT !.world = insert_resource(a1.world, T, Default(T))]
    IN register_dev_command(
           register_dev_command(
               register_dev_command(a2, CommandId("Enable", T)),
               CommandId("Disable", T)),
           CommandId("Toggle", T))

\* init_dev_tool without its init_resource call.
init_dev_tool_no_resource(app, T) ==
    LET a1 == [app EXCEPT !.registry = register_type(app.registry, ToolId(T))]
    IN register_dev_command(
           register_dev_command(
               register_dev_command(a1, CommandId("Enable", T)),
               CommandId("Disable", T)),
           CommandId("Toggle", T))

\* init_dev_tool without the registration of Toggle<T>.
init_dev_tool_no_toggle(app, T) ==
    LET a1 == [app EXCEPT !.registry = register_type(app.registry, ToolId(T))]
        a2 == [a1 EXCEPT !.world = init_resource(a1.world, T)]
    IN register_dev_command(
           register_dev_command(a2, CommandId("Enable", T)),
           CommandId("Disable", T))

init_dev_tool(app, T) ==
    LET a1 == [app EXCEPT !.registry = register_type(app.registry, ToolId(T))]
        a2 == [a1 EXCEPT !.world = init_resource(a1.world, T)]
    IN register_dev_command(
           register_dev_command(
               register_dev_command(a2, CommandId("Enable", T)),
               CommandId("Disable", T)),
           CommandId("Toggle", T))

\* insert_dev_tool written with init_resource, as init_dev_tool is.
insert_dev_tool_init(app, T, tool) ==
    LET a1 == [app EXCEPT !.registry = register_type(app.registry, ToolId(T))]
        a2 == [a1 EXCEPT !.world = init_resource(a1.world, T)]
    IN register_dev_command(
           register_dev_command(
               register_dev_command(a2, CommandId("Enable", T)),
               CommandId("Disable", T)),
           CommandId("Toggle", T))

insert_dev_tool(app, T, tool) ==
    LET a1 == [app EXCEPT !.registry = register_type(app.registry, ToolId(T))]
        a2 == [a1 EXCEPT !.world = insert_resource(a1.world, T, tool)]
    IN register_dev_command(
           register_dev_command(
               register_dev_command(a2, CommandId("Enable", T)),
               CommandId("Disable", T)),
           CommandId("Toggle", T))

\* The App as the registration calls see it.
App == [registry |-> registry, world |-> world]

(***************************************************************************)
(* State machine                                                           *)
(***************************************************************************)
\* The record kept of a call: op its name, id the type it was instantiated
\* at, arg the value passed, ret the value returned, prev the live instance of
\* the tool concerned as it was when the call was made.
Call(op, id, arg, ret, prev) ==
    [op |-> op, id |-> id, arg |-> arg, ret |-> ret, prev |-> prev]

\* App::new(): nothing registered, no resources, nothing reconstructed.
Init ==
    /\ registry = {}
    /\ world = [T \in ToolTypes |-> None]
    /\ pending = <<>>
    /\ last = Call("new", ToolId("DevFlyCamera"), None, None, None)

InitDevTool(T) ==
    /\ registry' = init_dev_tool(App, T).registry
    /\ world' = init_dev_tool(App, T).world
    /\ last' = Call("init_dev_tool", ToolId(T), None, None, world[T])
    /\ UNCHANGED pending

InsertDevTool(T, tool) ==
    /\ registry' = insert_dev_tool(App, T, tool).registry
    /\ world' = insert_dev_tool(App, T, tool).world
    /\ last' = Call("insert_dev_tool", ToolId(T), Some(tool), None, world[T])
    /\ UNCHANGED pending

RegisterDevCommand(C) ==
    /\ registry' = register_dev_command(App, C).registry
    /\ world' = register_dev_command(App, C).world
    /\ last' = Call("register_dev_command", C, None, None, world[C[2]])
    /\ UNCHANGED pending

\* Runtime dispatch, first step: type identifier -> vtable.
Lookup(id) ==
    /\ last' = Call("lookup", id, None, get_type_data(registry, id), world[id[2]])
    /\ UNCHANGED <<registry, world, pending>>

\* ReflectDevTool::get_reflect(&self, world)
GetReflect(D) ==
    /\ last' = Call("get_reflect", ToolId(D), None, get_reflect(D, world), world[D])
    /\ UNCHANGED <<registry, world, pending>>

\* get taking the resource out of the world (World::remove_resource::<D>()).
Get_take(D) ==
    /\ last' = Call("get", ToolId(D), None, get(D, world), world[D])
    /\ world' = [world EXCEPT ![D] = None]
    /\ UNCHANGED <<registry, pending>>

\* ReflectDevTool::get(&self, world)
Get(D) ==
    /\ last' = Call("get", ToolId(D), None, get(D, world), world[D])
    /\ UNCHANGED <<registry, world, pending>>

\* ReflectDevTool::from_reflect(&self, reflect)
FromReflect(D, reflect) ==
    /\ last' = Call("from_reflect", ToolId(D), Some(reflect),
                    from_reflect(D, reflect), world[D])
    /\ UNCHANGED <<registry, world, pending>>

\* ReflectDevCommand::from_reflect(&self, reflect); the host keeps the boxed
\* command it gets until it applies it.
DevCommandFromReflect(C, reflect) ==
    /\ Len(pending) < MaxPending
    /\ last' = Call("dev_command_from_reflect", C, Some(reflect),
                    dev_command_from_reflect(C, reflect), world[C[2]])
    /\ pending' = pending \o dev_command_from_reflect(C, reflect)
    /\ UNCHANGED <<registry, world>>

\* Command::apply(self, world): the oldest reconstructed command is consumed.
ApplyCommand ==
    /\ pending # <<>>
    /\ world' = Command_apply(Head(pending), world).world
    /\ pending' = Tail(pending)
    /\ last' = Call("apply", CommandId(Head(pending).kind, Head(pending).ty),
                    Some(Head(pending)),
                    Some(Command_apply(Head(pending), world).self),
                    world[Head(pending).ty])
    /\ UNCHANGED registry

\* DevCommand::apply(&self, world) on the boxed command, which is then dropped.
ApplyDevCommand ==
    /\ pending # <<>>
    /\ world' = DevCommand_apply(Head(pending), world).world
    /\ pending' = Tail(pending)
    /\ last' = Call("dev_apply", CommandId(Head(pending).kind, Head(pending).ty),
                    Some(Head(pending)),
                    Some(DevCommand_apply(Head(pending), world).self),
                    world[Head(pending).ty])
    /\ UNCHANGED registry

Next ==
    \/ \E T \in ToolTypes : InitDevTool(T)
    \/ \E T \in ToolTypes : \E tool \in ToolValues(T) : InsertDevTool(T, tool)
    \/ \E C \in CommandIds : RegisterDevCommand(C)
    \/ \E id \in TypeIds : Lookup(id)
    \/ \E D \in ToolTypes : GetReflect(D)
    \/ \E D \in ToolTypes : Get(D)
    \/ \E D \in ToolTypes : \E reflect \in Payloads : FromReflect(D, reflect)
    \/ \E C \in CommandIds : \E reflect \in Payloads : DevCommandFromReflect(C, reflect)
    \/ ApplyCommand
    \/ ApplyDevCommand

Spec == Init /\ [][Next]_vars

(***************************************************************************)
(* Properties                                                              *)
(***************************************************************************)
ApplyOps == {"apply", "dev_apply"}
ReadOps == {"lookup", "get_reflect", "get", "from_reflect", "dev_command_from_reflect"}

\* The tool type the last call concerned, and its live instance's flag.
LastTool == last.id[2]
LiveFlag(T) == is_enabled(unwrap(world[T]))

\* C1: applying a reconstructed Enable<T> leaves the live T instance's enabled
\* flag true and applying a reconstructed Disable<T> leaves it false, whatever
\* the flag was before.
C1_EnableDisableSetLiveFlag ==
    (last.op \in ApplyOps /\ last.prev # None /\ world[LastTool] # None) =>
        /\ last.id[1] = "Enable" => LiveFlag(LastTool) = TRUE
        /\ last.id[1] = "Disable" => LiveFlag(LastTool) = FALSE

\* C2: applying a Toggle<T> built from snapshot v leaves the live T instance's
\* enabled flag at the negation of v's flag, whatever the live flag was.
C2_ToggleNegatesSnapshot ==
    (last.op \in ApplyOps /\ last.id[1] = "Toggle"
        /\ last.prev # None /\ world[LastTool] # None) =>
        LiveFlag(LastTool) = ~is_enabled(unwrap(last.arg).dev_tool)

\* C3 as stated: right after any init_dev_tool::<T>() the registry yields T's
\* vtable, get_reflect and get return a value, and the tool get returns has
\* the enabled flag of T::default().
C3_RegisterYieldsDefault ==
    last.op = "init_dev_tool" =>
        /\ get_type_data(registry, ToolId(LastTool)) # None
        /\ get_reflect(LastTool, world) # None
        /\ get(LastTool, world) # None
        /\ is_enabled(unwrap(get(LastTool, world))) = is_enabled(Default(LastTool))

\* C3 amended: right after init_dev_tool::<T>() the registry yields T's vtable
\* and get_reflect and get return a value; the tool get returns has the flag
\* of T::default() when T had no live instance before the call, and is the
\* instance that was already there otherwise.
C3_RegisterYieldsDefaultWhenAbsent ==
    last.op = "init_dev_tool" =>
        /\ get_type_data(registry, ToolId(LastTool)) # None
        /\ get_reflect(LastTool, world) # None
        /\ get(LastTool, world) # None
        /\ last.prev = None =>
               is_enabled(unwrap(get(LastTool, world))) = is_enabled(Default(LastTool))
        /\ last.prev # None => get(LastTool, world) = last.prev

\* init_dev_tool::<Brightness>() was called with no Brightness in the world
\* and the live Brightness is disabled, as its default is.
C3_Witness ==
    /\ last.op = "init_dev_tool"
    /\ last.id = ToolId("Brightness")
    /\ last.prev = None
    /\ world["Brightness"] # None
    /\ ~LiveFlag("Brightness")

\* C4: right after insert_dev_tool::<T>(value) the live T instance is value,
\* whether or not there was one before, and the registry holds T's vtable and
\* the three command vtables, exactly as a call of init_dev_tool::<T>() leaves
\* them.
C4_InsertSeedsValue ==
    last.op = "insert_dev_tool" =>
        /\ world[LastTool] = last.arg
        /\ get_type_data(registry, ToolId(LastTool)) # None
        /\ \A k \in CommandKinds :
               get_type_data(registry, CommandId(k, LastTool)) # None
        /\ \A id \in TypeIds :
               get_type_data(registry, id)
                   = get_type_data(init_dev_tool(App, LastTool).registry, id)

\* insert_dev_tool::<DevFlyCamera>(value) replaced a live instance that
\* differed from value.
C4_Witness ==
    /\ last.op = "insert_dev_tool"
    /\ last.id = ToolId("DevFlyCamera")
    /\ last.prev # None
    /\ last.prev # last.arg
    /\ world["DevFlyCamera"] = last.arg

\* C5: in every reachable state, each registration call made twice for the
\* same type (and value) leaves the App as making it once does, and a
\* registration call changes no registry entry and no live instance of any
\* other type.
C5_RegistrationIdempotent ==
    /\ \A T \in ToolTypes :
           /\ init_dev_tool(init_dev_tool(App, T), T) = init_dev_tool(App, T)
           /\ \A tool \in ToolValues(T) :
                  insert_dev_tool(insert_dev_tool(App, T, tool), T, tool)
                      = insert_dev_tool(App, T, tool)
           /\ \A U \in ToolTypes \ {T} :
                  /\ init_dev_tool(App, T).world[U] = world[U]
                  /\ \A tool \in ToolValues(T) :
                         insert_dev_tool(App, T, tool).world[U] = world[U]
                  /\ \A id \in {ToolId(U)} \cup {CommandId(k, U) : k \in CommandKinds} :
                         /\ id \in init_dev_tool(App, T).registry <=> id \in registry
                         /\ \A tool \in ToolValues(T) :
                                id \in insert_dev_tool(App, T, tool).registry
                                    <=> id \in registry
    /\ \A C \in CommandIds :
           /\ register_dev_command(register_dev_command(App, C), C)
                  = register_dev_command(App, C)
           /\ register_dev_command(App, C).world = world
           /\ \A id \in TypeIds \ {C} :
                  id \in register_dev_command(App, C).registry <=> id \in registry

\* register_dev_command::<Toggle<DevFlyCamera>>() was called when the type
\* was registered already, with both tools live.
C5_Witness ==
    /\ last.op = "register_dev_command"
    /\ last.id = CommandId("Toggle", "DevFlyCamera")
    /\ ToolId("DevFlyCamera") \in registry
    /\ world["DevFlyCamera"] # None
    /\ world["Brightness"] # None

\* C6: a lookup of an unregistered type identifier, a reconstruction from a
\* payload of another shape, and get_reflect / get with no live instance each
\* return None (never a panic), and leave the registry and the world
\* unchanged.
C6_MissesAreAbsent ==
    /\ [](/\ (last.op = "lookup" /\ last.id \notin registry) => last.ret = None
          /\ (last.op = "from_reflect"
                 /\ ~(unwrap(last.arg).shape = "Tool"
                        /\ unwrap(last.arg).of = LastTool)) => last.ret = None
          /\ (last.op = "dev_command_from_reflect"
                 /\ ~(unwrap(last.arg).shape = "Command"
                        /\ unwrap(last.arg).of = LastTool)) => last.ret = None
          /\ (last.op \in {"get_reflect", "get"} /\ last.prev = None) =>
                 last.ret = None
          /\ last.op \in ReadOps => last.ret # Panic)
    /\ [][(last'.op \in ReadOps /\ last'.ret = None) =>
              UNCHANGED <<registry, world>>]_vars

\* get was called for Brightness with no live Brightness while DevFlyCamera
\* is registered, and returned None.
C6_Witness ==
    /\ last.op = "get"
    /\ last.id = ToolId("Brightness")
    /\ last.prev = None
    /\ last.ret = None
    /\ ToolId("DevFlyCamera") \in registry

\* C7: every registered tool type has a live instance in the world, and a
\* live instance is never removed by any step.
C7_OneLiveInstance ==
    /\ [](\A T \in ToolTypes : ToolId(T) \in registry => world[T] # None)
    /\ [][\A T \in ToolTypes : world[T] # None => world'[T] # None]_vars

\* A command for a registered, live DevFlyCamera was applied and the
\* instance is still there.
C7_Witness ==
    /\ last.op \in ApplyOps
    /\ LastTool = "DevFlyCamera"
    /\ ToolId("DevFlyCamera") \in registry
    /\ last.prev # None
    /\ world["DevFlyCamera"] # None

\* The live T instance's enabled flag differs before and after the step.
FlagChanges(T) ==
    /\ world[T] # None
    /\ world'[T] # None
    /\ is_enabled(unwrap(world'[T])) # is_enabled(unwrap(world[T]))

\* C8 as stated: every step that changes the enabled flag of a live tool is
\* the application of a command.
C8_OnlyCommandsChangeFlag ==
    [][\A T \in ToolTypes : FlagChanges(T) => last'.op \in ApplyOps]_vars

\* C8 amended: every step that changes the enabled flag of a live tool T is
\* the application of a command or a call of insert_dev_tool::<T>(value).
C8_OnlyCommandsOrInsertChangeFlag ==
    [][\A T \in ToolTypes :
           FlagChanges(T) =>
               \/ last'.op \in ApplyOps
               \/ last'.op = "insert_dev_tool" /\ last'.id = ToolId(T)]_vars

\* init_dev_tool::<DevFlyCamera>() was called on a live instance whose flag
\* is not the default's, and the instance is as it was.
C8_Witness ==
    /\ last.op = "init_dev_tool"
    /\ last.id = ToolId("DevFlyCamera")
    /\ last.prev # None
    /\ is_enabled(unwrap(last.prev)) # is_enabled(Default("DevFlyCamera"))
    /\ world["DevFlyCamera"] = last.prev

\* C9: whenever the registry holds the ReflectDevTool vtable of T it holds
\* the ReflectDevCommand vtables of Enable<T>, Disable<T> and Toggle<T>, and
\* T has a live instance.
C9_ToolHasItsCommands ==
    \A T \in ToolTypes :
        get_type_data(registry, ToolId(T)) # None =>
            /\ \A k \in CommandKinds :
                   /\ get_type_data(registry, CommandId(k, T)) # None
                   /\ unwrap(get_type_data(registry, CommandId(k, T))).vtable
                          = "ReflectDevCommand"
            /\ get(T, world) # None

\* Brightness is registered with its three commands while DevFlyCamera is
\* not, although Enable<DevFlyCamera> is.
C9_Witness ==
    /\ ToolId("Brightness") \in registry
    /\ \A k \in CommandKinds : CommandId(k, "Brightness") \in registry
    /\ ToolId("DevFlyCamera") \notin registry
    /\ CommandId("Enable", "DevFlyCamera") \in registry
    /\ CommandId("Toggle", "DevFlyCamera") \notin registry

\* C10: a lookup and every vtable operation leave the registry and every
\* live instance unchanged, and a read repeated right after itself returns
\* what it returned before.
C10_ReadsArePure ==
    /\ [][last'.op \in ReadOps => UNCHANGED <<registry, world>>]_vars
    /\ [][(last'.op \in ReadOps /\ last.op = last'.op /\ last.id = last'.id
              /\ last.arg = last'.arg) => last'.ret = last.ret]_vars

\* get returned the live DevFlyCamera while a reconstructed command is pending.
C10_Witness ==
    /\ last.op = "get"
    /\ last.id = ToolId("DevFlyCamera")
    /\ last.ret # None
    /\ last.ret = world["DevFlyCamera"]
    /\ pending # <<>>

====
